---- MODULE Spec2Model ----
(***************************************************************************)
(* Verification model of loop.fun.                                         *)
(*                                                                         *)
(*   SpecStream  the byte-range responder of                               *)
(*               GET /api/videos/:videoId/stream (server/app.ts 385-415):  *)
(*               a stored file of fileSize bytes, one Range header per     *)
(*               request, the response that the handler writes.            *)
(*   SpecClient  the browser component VideoUpload.tsx: file selection,    *)
(*               the part-count slider, handleUpload and the per-part loop *)
(*               of splitVideoLocally with the windows it hands to the     *)
(*               transcoder.                                               *)
(*   Spec        the server server/app.ts: the metadata store, the files   *)
(*               on disk, the processVideo runs in flight, and the routes  *)
(*               upload, process, download, get, stream, list and delete.  *)
(*   SpecSplit   the two split pipelines, the component's and the          *)
(*               server's, each explored with the other at rest.           *)
(*                                                                         *)
(* A Range header is a sequence of tokens: the literal "bytes=" is one     *)
(* token, every other token is one character.  Times are fixed-point       *)
(* numbers counted in ticks; a division rounds to the nearest tick, the    *)
(* way a floating-point division rounds to the nearest representable       *)
(* number.                                                                 *)
(***************************************************************************)
EXTENDS Integers, Sequences, FiniteSets, Bags, TLC

VARIABLES
  fileSize,       \* stat.size of the stored file the stream request names
  req,            \* the stream request being answered
  res,            \* the response the stream handler wrote
  handled,        \* a stream request has been answered and not yet closed
  uploadState,    \* useState<UploadState> of the component
  selectedFile,   \* useState<File | null>
  numberOfParts,  \* useState<number>
  ffmpegLoad,     \* the FFmpeg instance: "new", "loading", "loaded", "failed"
  pc,             \* the await at which the running handleUpload is suspended
  file,           \* splitVideoLocally: parameter file
  numParts,       \* splitVideoLocally: parameter numParts
  i,              \* splitVideoLocally: loop index
  duration,       \* splitVideoLocally: video.duration
  partDuration,   \* splitVideoLocally: duration / numParts
  parts,          \* splitVideoLocally: parts
  partNames,      \* splitVideoLocally: partNames
  windows,        \* the windows the running split has handed to the transcoder
  videoDatabase,  \* server: the metadata records, in the order of the array
  disk,           \* server: the ids whose uploaded file exists in uploads/
  zips,           \* server: processed.zip of each id: "none", "partial", "complete"
  runs,           \* server: the bag of processVideo calls in flight
  reply,          \* server: the response written by the step just taken
  nextId,         \* server: how many identifiers uuidv4 has handed out, plus one
  accepted,       \* history: the ids of the accepted uploads, in upload order
  deleted         \* history: the ids a DELETE has removed

streamVars == <<fileSize, req, res, handled>>

splitVars == <<pc, file, numParts, i, duration, partDuration, parts, partNames, windows>>

clientVars == <<uploadState, selectedFile, numberOfParts, ffmpegLoad, splitVars>>

serverVars == <<videoDatabase, disk, zips, runs, reply, nextId, accepted, deleted>>

vars == <<streamVars, clientVars, serverVars>>

----------------------------------------------------------------------------
(* Bounds *)

MaxFileSize == 3

MaxHdrLen == 4

(* The characters a Range header is drawn from: the "bytes=" literal, four *)
(* digits, the separator and one character that is none of these.          *)
Alphabet == {"bytes=", "0", "1", "2", "3", "-", "x"}

RECURSIVE SeqsUpTo(_)
SeqsUpTo(n) ==
  IF n = 0 THEN {<< >>}
  ELSE LET shorter == SeqsUpTo(n - 1)
       IN  shorter \cup {Append(s, c) : s \in {t \in shorter : Len(t) = n - 1}, c \in Alphabet}

RangeHeaders == SeqsUpTo(MaxHdrLen)

----------------------------------------------------------------------------
(* JavaScript string and number primitives used by the range branch *)

(* parseInt of a string without a leading digit, and every arithmetic on   *)
(* it, is NaN.  A piece of split("-") holds no sign, so parseInt never     *)
(* returns a negative number and -1 is free to stand for NaN.              *)
NaN == -1

Digits == {"0", "1", "2", "3", "4", "5", "6", "7", "8", "9"}

DigitValue(c) ==
  CASE c = "0" -> 0 [] c = "1" -> 1 [] c = "2" -> 2 [] c = "3" -> 3
    [] c = "4" -> 4 [] c = "5" -> 5 [] c = "6" -> 6 [] c = "7" -> 7
    [] c = "8" -> 8 [] c = "9" -> 9

(* String.prototype.replace(/bytes=/, ""): the first match is removed,     *)
(* wherever it stands.                                                     *)
RECURSIVE replaceBytes(_)
replaceBytes(s) ==
  IF s = << >> THEN << >>
  ELSE IF Head(s) = "bytes=" THEN Tail(s)
  ELSE <<Head(s)>> \o replaceBytes(Tail(s))

(* String.prototype.split("-"): the pieces between the separators; a       *)
(* string without separator is its only piece.                             *)
RECURSIVE split(_)
split(s) ==
  IF s = << >> THEN << << >> >>
  ELSE LET rest == split(Tail(s))
       IN  IF Head(s) = "-" THEN << << >> >> \o rest
           ELSE << <<Head(s)>> \o Head(rest) >> \o Tail(rest)

(* parseInt(s, 10): the value of the longest prefix of decimal digits,     *)
(* NaN when s does not start with a digit.  (Leading white space and a     *)
(* "+" sign, which parseInt skips, are not among the header characters.)   *)
RECURSIVE parseDigits(_, _, _)
parseDigits(s, acc, any) ==
  IF s = << >> \/ Head(s) \notin Digits
  THEN IF any THEN acc ELSE NaN
  ELSE parseDigits(Tail(s), 10 * acc + DigitValue(Head(s)), TRUE)

parseInt(s) == parseDigits(s, 0, FALSE)

(* Number to string: the decimal numeral of a natural number. *)
DigitChar(d) ==
  CASE d = 0 -> "0" [] d = 1 -> "1" [] d = 2 -> "2" [] d = 3 -> "3"
    [] d = 4 -> "4" [] d = 5 -> "5" [] d = 6 -> "6" [] d = 7 -> "7"
    [] d = 8 -> "8" [] d = 9 -> "9"

RECURSIVE Decimal(_)
Decimal(n) ==
  IF n < 10 THEN <<DigitChar(n)>> ELSE Append(Decimal(n \div 10), DigitChar(n % 10))

----------------------------------------------------------------------------
(* The stream handler *)

NoLength == -1

NoContentRange == [kind |-> "none", start |-> 0, end |-> 0, total |-> 0]

NoRead == [opened |-> FALSE, start |-> 0, end |-> 0]

NoRequest == [hasRange |-> FALSE, range |-> << >>]

NoResponse ==
  [status |-> 0, contentRange |-> NoContentRange, acceptRanges |-> "none",
   contentLength |-> NoLength, read |-> NoRead, bodyBytes |-> 0,
   fault |-> "none", error |-> "none"]

(* fs.createReadStream(path, {start, end}) checks its options before it    *)
(* opens the file: both must be integers >= 0 and start must not exceed    *)
(* end, otherwise it throws ERR_OUT_OF_RANGE.                              *)
createReadStreamThrows(start, end) ==
  start = NaN \/ end = NaN \/ start > end

(* The bytes a read of the inclusive window [start, end] delivers from a   *)
(* file of size bytes: the read stops at end of file.                      *)
bytesRead(size, start, end) ==
  LET last == IF end < size - 1 THEN end ELSE size - 1
  IN  IF last < start THEN 0 ELSE last - start + 1

(* A fault thrown by the handler reaches the error middleware, which       *)
(* answers 500 INTERNAL_ERROR.                                             *)
errorMiddleware(code) ==
  [NoResponse EXCEPT !.status = 500, !.fault = code, !.error = "INTERNAL_ERROR"]

(* const start = parseInt(parts[0], 10) *)
rangeStart(rangeParts) == parseInt(rangeParts[1])

rangeEndWholeSize(size, rangeParts) ==
  IF Len(rangeParts) >= 2 /\ rangeParts[2] # << >>
  THEN parseInt(rangeParts[2])
  ELSE size

(* const end = parts[1] ? parseInt(parts[1], 10) : fileSize - 1: a missing *)
(* piece (undefined) and an empty piece are both falsy.                    *)
rangeEnd(size, rangeParts) ==
  IF Len(rangeParts) >= 2 /\ rangeParts[2] # << >>
  THEN parseInt(rangeParts[2])
  ELSE size - 1

chunksizeExclusive(start, end) ==
  IF start = NaN \/ end = NaN THEN NaN ELSE end - start

(* const chunksize = (end - start) + 1 *)
chunksize(start, end) ==
  IF start = NaN \/ end = NaN THEN NaN ELSE (end - start) + 1

rangeBranch(size, range) ==
  LET rangeParts == split(replaceBytes(range))
      start == rangeStart(rangeParts)
      end   == rangeEnd(size, rangeParts)
  IN  IF createReadStreamThrows(start, end)
      THEN errorMiddleware("ERR_OUT_OF_RANGE")
      ELSE [status |-> 206,
            contentRange |-> [kind |-> "range", start |-> start, end |-> end, total |-> size],
            acceptRanges |-> "bytes",
            contentLength |-> chunksize(start, end),
            read |-> [opened |-> TRUE, start |-> start, end |-> end],
            bodyBytes |-> bytesRead(size, start, end),
            fault |-> "none", error |-> "none"]

fullBranchShort(size) ==
  [status |-> 200,
   contentRange |-> NoContentRange,
   acceptRanges |-> "none",
   contentLength |-> size - 1,
   read |-> [opened |-> TRUE, start |-> 0, end |-> size - 1],
   bodyBytes |-> size,
   fault |-> "none", error |-> "none"]

fullBranch(size) ==
  [status |-> 200,
   contentRange |-> NoContentRange,
   acceptRanges |-> "none",
   contentLength |-> size,
   read |-> [opened |-> TRUE, start |-> 0, end |-> size - 1],
   bodyBytes |-> size,
   fault |-> "none", error |-> "none"]

(* if (range) { ... } else { ... }: a missing header and the empty string  *)
(* are both falsy.                                                         *)
streamFile(size, request) ==
  IF request.hasRange /\ request.range # << >>
  THEN rangeBranch(size, request.range)
  ELSE fullBranch(size)

----------------------------------------------------------------------------
(* Floating-point arithmetic of the split: times are counted in ticks of   *)
(* 1/2^ScaleBits second and carry Precision significant bits; a quotient   *)
(* or product is rounded to the nearest such number, ties to even.         *)

ScaleBits == 8

Precision == 4

MaxDuration == 13

RECURSIVE Pow2(_)
Pow2(n) == IF n = 0 THEN 1 ELSE 2 * Pow2(n - 1)

TicksPerSecond == Pow2(ScaleBits)

roundHalfEven(a, b) ==
  LET q == a \div b
      r == a % b
  IN  IF 2 * r < b THEN q
      ELSE IF 2 * r > b THEN q + 1
      ELSE IF q % 2 = 0 THEN q ELSE q + 1

(* The weight of the last significant bit of a / b. *)
RECURSIVE ulp(_, _, _)
ulp(a, b, u) ==
  IF a >= b * (2 * u) * Pow2(Precision - 1) THEN ulp(a, b, 2 * u) ELSE u

roundToPrecision(a, b) ==
  IF a = 0 THEN 0
  ELSE LET u == ulp(a, b, 1) IN u * roundHalfEven(a, b * u)

fdiv(x, n) == roundToPrecision(x, n)

fmul(k, x) == roundToPrecision(k * x, 1)

(* video.duration: a whole number of seconds up to MaxDuration. *)
Durations == {d * TicksPerSecond : d \in 0..MaxDuration}

----------------------------------------------------------------------------
(* The component VideoUpload *)

Null == [null |-> TRUE]

videoTypes ==
  {"video/mp4", "video/mpeg", "video/quicktime", "video/x-msvideo", "video/webm",
   "video/ogg", "video/x-flv", "video/3gpp", "video/x-ms-wmv"}

maxSize == 500 * 1024 * 1024

(* The files a user picks: two videos, a video in a container the video   *)
(* element cannot read, a text file, a video above 500MB.  A name is a     *)
(* sequence of characters, "." among them.                                 *)
Files ==
  { [name |-> <<"clip", ".", "mp4">>,      type |-> "video/mp4",  size |-> 1024],
    [name |-> <<"old", ".", "avi">>,       type |-> "video/x-msvideo", size |-> 2048],
    [name |-> <<"a", ".", "b", ".", "webm">>, type |-> "video/webm", size |-> maxSize],
    [name |-> <<"notes", ".", "txt">>,     type |-> "text/plain", size |-> 10],
    [name |-> <<"huge", ".", "mp4">>,      type |-> "video/mp4",  size |-> maxSize + 1] }

(* file.name.replace(/\.[^/.]+$/, ""): the last "." and the characters     *)
(* after it are removed when at least one character follows and none of    *)
(* them is "/" or ".".                                                     *)
baseName(name) ==
  LET dots == {k \in 1..Len(name) : name[k] = "."}
      isExt(k) == k < Len(name) /\ \A j \in (k + 1)..Len(name) : name[j] \notin {".", "/"}
      cut == {k \in dots : isExt(k)}
  IN  IF cut = {} THEN name
      ELSE SubSeq(name, 1, (CHOOSE k \in cut : \A j \in cut : j <= k) - 1)

initialUploadState ==
  [uploading |-> FALSE, progress |-> 0, result |-> Null, error |-> Null,
   splitVideos |-> Null, ffmpegLoading |-> FALSE]

NoFile == Null

(* The locals of splitVideoLocally while no split is running. *)
SplitIdle ==
  /\ pc' = "idle"
  /\ file' = NoFile
  /\ numParts' = 0
  /\ i' = 0
  /\ duration' = 0
  /\ partDuration' = 0
  /\ parts' = << >>
  /\ partNames' = << >>
  /\ windows' = << >>

(* useEffect(() => { loadFFmpeg() }, []) *)
loadFFmpeg ==
  /\ ffmpegLoad = "new"
  /\ ffmpegLoad' = "loading"
  /\ uploadState' = [uploadState EXCEPT !.ffmpegLoading = TRUE]
  /\ UNCHANGED <<selectedFile, numberOfParts, splitVars>>

(* await ffmpeg.load(...) settles *)
loadFFmpegDone ==
  /\ ffmpegLoad = "loading"
  /\ \E ok \in BOOLEAN :
       IF ok
       THEN /\ ffmpegLoad' = "loaded"
            /\ uploadState' = [uploadState EXCEPT !.ffmpegLoading = FALSE]
       ELSE /\ ffmpegLoad' = "failed"
            /\ uploadState' = [uploadState EXCEPT
                 !.ffmpegLoading = FALSE,
                 !.error = [message |-> "Failed to load video processing library"]]
  /\ UNCHANGED <<selectedFile, numberOfParts, splitVars>>

handleFileSelectDeselects ==
  /\ ffmpegLoad # "new"
  /\ ~uploadState.uploading
  /\ \E f \in Files :
       IF f.type \notin videoTypes \/ f.size > maxSize
       THEN /\ uploadState' = [uploadState EXCEPT
                 !.error = [message |-> "Invalid file type"], !.result = Null]
            /\ selectedFile' = Null
       ELSE /\ selectedFile' = f
            /\ uploadState' = [uploadState EXCEPT
                 !.error = Null, !.result = Null, !.splitVideos = Null]
  /\ UNCHANGED <<numberOfParts, ffmpegLoad, splitVars>>

(* onChange of the file input, enabled unless uploading *)
handleFileSelect ==
  /\ ffmpegLoad # "new"
  /\ ~uploadState.uploading
  /\ \E f \in Files :
       IF f.type \notin videoTypes
       THEN /\ uploadState' = [uploadState EXCEPT
                 !.error = [message |-> "Invalid file type"], !.result = Null]
            /\ UNCHANGED selectedFile
       ELSE IF f.size > maxSize
       THEN /\ uploadState' = [uploadState EXCEPT
                 !.error = [message |-> "File too large"], !.result = Null]
            /\ UNCHANGED selectedFile
       ELSE /\ selectedFile' = f
            /\ uploadState' = [uploadState EXCEPT
                 !.error = Null, !.result = Null, !.splitVideos = Null]
  /\ UNCHANGED <<numberOfParts, ffmpegLoad, splitVars>>

(* onChange of the parts slider (min 2, max 6), enabled unless uploading:  *)
(* setNumberOfParts(parseInt(e.target.value))                              *)
sliderMin == 2

sliderMax == 6

setNumberOfPartsAnytime ==
  /\ ffmpegLoad # "new"
  /\ \E n \in sliderMin..sliderMax : numberOfParts' = parseInt(Decimal(n))
  /\ numberOfParts' # numberOfParts
  /\ UNCHANGED <<uploadState, selectedFile, ffmpegLoad, splitVars>>

setNumberOfParts ==
  /\ ffmpegLoad # "new"
  /\ ~uploadState.uploading
  /\ \E n \in sliderMin..sliderMax : numberOfParts' = parseInt(Decimal(n))
  /\ numberOfParts' # numberOfParts
  /\ UNCHANGED <<uploadState, selectedFile, ffmpegLoad, splitVars>>

(* The outcomes of an operation of the FFmpeg instance: every operation    *)
(* throws while the instance is not loaded.                                *)
ffmpegOutcomes == IF ffmpegLoad = "loaded" THEN {"ok", "throw"} ELSE {"throw"}

splitThrowsKeepsProgress ==
  /\ uploadState' = [uploadState EXCEPT
       !.uploading = FALSE,
       !.error = [message |-> "Failed to process video with FFmpeg"],
       !.splitVideos = Null]
  /\ SplitIdle

(* catch of splitVideoLocally rethrows, catch of handleUpload reports *)
splitThrows ==
  /\ uploadState' = [uploadState EXCEPT
       !.uploading = FALSE,
       !.error = [message |-> "Failed to process video with FFmpeg"],
       !.progress = 0,
       !.splitVideos = Null]
  /\ SplitIdle

(* One await ffmpeg.<operation>(...) of splitVideoLocally that changes no  *)
(* local: it resumes at pc next or throws.                                 *)
ffmpegStep(at, next) ==
  /\ pc = at
  /\ \E o \in ffmpegOutcomes :
       IF o = "ok"
       THEN /\ pc' = next
            /\ UNCHANGED <<uploadState, file, numParts, i, duration, partDuration,
                           parts, partNames, windows>>
       ELSE splitThrows
  /\ UNCHANGED <<selectedFile, numberOfParts, ffmpegLoad>>

(* onClick of the upload button, enabled when a file is selected and       *)
(* neither uploading nor ffmpegLoading.  The handler runs to its first     *)
(* await: the updates progress 0 and progress 20 are queued in the same    *)
(* turn and applied together.                                              *)
handleUpload ==
  /\ selectedFile # Null
  /\ ~uploadState.uploading
  /\ ~uploadState.ffmpegLoading
  /\ ffmpegLoad # "new"
  /\ uploadState' = [uploadState EXCEPT
       !.uploading = TRUE, !.progress = 20, !.error = Null, !.result = Null,
       !.splitVideos = Null]
  /\ pc' = "writeInput"
  /\ file' = selectedFile
  /\ numParts' = numberOfParts
  /\ parts' = << >>
  /\ partNames' = << >>
  /\ windows' = << >>
  /\ UNCHANGED <<i, duration, partDuration, selectedFile, numberOfParts, ffmpegLoad>>

(* await ffmpeg.writeFile('input.mp4', await fetchFile(file)) *)
writeInput == ffmpegStep("writeInput", "probe")

(* await ffmpeg.exec(['-i', 'input.mp4', '-f', 'null', '-']) *)
execProbe == ffmpegStep("probe", "metadata")

(* The video element created for the file fires loadedmetadata when it can *)
(* read the container; for one it cannot read it fires error, for which    *)
(* splitVideoLocally sets no handler.                                      *)
firesLoadedMetadata(f) == f.type \in {"video/mp4", "video/webm"}

(* await new Promise(resolve => video.onloadedmetadata = resolve), then    *)
(* duration, partDuration and the loop head                                *)
loadedMetadata ==
  /\ pc = "metadata"
  /\ firesLoadedMetadata(file)
  /\ \E d \in Durations :
       /\ duration' = d
       /\ partDuration' = fdiv(d, numParts)
  /\ i' = 0
  /\ pc' = IF 0 < numParts THEN "segment" ELSE "deleteInput"
  /\ UNCHANGED <<uploadState, selectedFile, numberOfParts, ffmpegLoad, file, numParts,
                 parts, partNames, windows>>

(* const endTime = (i + 1) * partDuration *)
endTime(k, pd) == fmul(k + 1, pd)

(* The window of part k as the extraction reads it: '-ss', '0',            *)
(* '-t', endTime.toString()                                                *)
segmentWindow(k, pd) ==
  [index |-> k, startTime |-> 0, endTime |-> 0 + endTime(k, pd)]

(* Step 1: await ffmpeg.exec([... '-ss', '0', '-t', endTime ...]); the     *)
(* window is logged when the extraction has run.                           *)
execSegment ==
  /\ pc = "segment"
  /\ \E o \in ffmpegOutcomes :
       IF o = "ok"
       THEN /\ pc' = "reverse"
            /\ windows' = Append(windows, segmentWindow(i, partDuration))
            /\ UNCHANGED <<uploadState, file, numParts, i, duration, partDuration,
                           parts, partNames>>
       ELSE splitThrows
  /\ UNCHANGED <<selectedFile, numberOfParts, ffmpegLoad>>

(* Step 2: await ffmpeg.exec([... 'reverse' ...]) *)
execReverse == ffmpegStep("reverse", "concatFile")

(* Step 3: await ffmpeg.writeFile(`concat_${i + 1}.txt`, concatContent) *)
writeConcat == ffmpegStep("concatFile", "concat")

(* Step 4: await ffmpeg.exec([... 'concat' ...]) *)
execConcat == ffmpegStep("concat", "read")

(* Math.round((i + 1) / numParts * 60) *)
roundedShare(k, n) == (2 * (k + 1) * 60 + n) \div (2 * n)

partProgressFromZero(k, n) == roundedShare(k, n)

(* const progress = 20 + Math.round((i + 1) / numParts * 60) *)
partProgress(k, n) == 20 + roundedShare(k, n)

partNameZeroBased(f, k) == baseName(f.name) \o <<"_part">> \o Decimal(k) \o <<".", "mp4">>

(* `${baseName}_part${i + 1}.mp4` *)
partName(f, k) == baseName(f.name) \o <<"_part">> \o Decimal(k + 1) \o <<".", "mp4">>

(* await ffmpeg.readFile(outputFilename), then parts.push, partNames.push  *)
(* and the progress update                                                 *)
readOutput ==
  /\ pc = "read"
  /\ \E o \in ffmpegOutcomes :
       IF o = "ok"
       THEN /\ parts' = Append(parts, [output |-> i + 1, of |-> windows[Len(windows)]])
            /\ partNames' = Append(partNames, partName(file, i))
            /\ uploadState' = [uploadState EXCEPT !.progress = partProgress(i, numParts)]
            /\ pc' = "cleanup"
            /\ UNCHANGED <<file, numParts, i, duration, partDuration, windows>>
       ELSE splitThrows
  /\ UNCHANGED <<selectedFile, numberOfParts, ffmpegLoad>>

(* The four deleteFile of the temporary files, errors ignored, then i++    *)
(* and the loop head                                                       *)
cleanupPart ==
  /\ pc = "cleanup"
  /\ i' = i + 1
  /\ pc' = IF i + 1 < numParts THEN "segment" ELSE "deleteInput"
  /\ UNCHANGED <<uploadState, selectedFile, numberOfParts, ffmpegLoad, file, numParts,
                 duration, partDuration, parts, partNames, windows>>

(* await ffmpeg.deleteFile('input.mp4'), return { parts, partNames }, and  *)
(* the rest of handleUpload's try block                                    *)
deleteInput ==
  /\ pc = "deleteInput"
  /\ \E o \in ffmpegOutcomes :
       IF o = "ok"
       THEN /\ uploadState' = [uploadState EXCEPT
                 !.uploading = FALSE,
                 !.progress = 100,
                 !.splitVideos = [parts |-> parts, partNames |-> partNames],
                 !.result = [success |-> TRUE, numberOfParts |-> numParts, data |-> file]]
            /\ SplitIdle
       ELSE splitThrows
  /\ UNCHANGED <<selectedFile, numberOfParts, ffmpegLoad>>

splitAnotherVideoResetsToOne ==
  /\ uploadState.result # Null
  /\ uploadState.result.success
  /\ uploadState.splitVideos # Null
  /\ uploadState' = [uploadState EXCEPT !.result = Null, !.splitVideos = Null]
  /\ selectedFile' = Null
  /\ numberOfParts' = 1
  /\ UNCHANGED <<ffmpegLoad, splitVars>>

(* onClick of "Split Another Video", shown with a successful result *)
splitAnotherVideo ==
  /\ uploadState.result # Null
  /\ uploadState.result.success
  /\ uploadState.splitVideos # Null
  /\ uploadState' = [uploadState EXCEPT !.result = Null, !.splitVideos = Null]
  /\ selectedFile' = Null
  /\ numberOfParts' = 2
  /\ UNCHANGED <<ffmpegLoad, splitVars>>

----------------------------------------------------------------------------
(* The server (server/app.ts): the metadata store, the files on disk, the  *)
(* processVideo runs in flight and the response written last.              *)

(* Bounds: the identifiers uuidv4 hands out over a run of the server, in   *)
(* the order it hands them out, and the number of processVideo calls in    *)
(* flight at the same time.                                                *)
Uuids == <<"6f1c", "a2e9">>

MaxRuns == 2

(* uuidv4(): the n-th call returns the n-th identifier; no identifier is   *)
(* handed out twice.                                                       *)
uuidv4(n) == Uuids[n]

(* The ids a request can name; one that no upload has been given yet is    *)
(* an unknown id.                                                          *)
VideoIds == {Uuids[n] : n \in 1..Len(Uuids)}

(* limits.fileSize of the multer configuration *)
fileSizeLimit == 500 * 1024 * 1024

videoMimeTypes == {"video/mp4", "video/webm"}

NoUploadFile == [mimetype |-> "none", size |-> 0]

(* What a client can send to the upload route: no file, a video, a file    *)
(* of another type, a video above the size limit.                          *)
UploadFiles ==
  { NoUploadFile,
    [mimetype |-> "video/mp4", size |-> 2],
    [mimetype |-> "text/plain", size |-> 2],
    [mimetype |-> "video/webm", size |-> fileSizeLimit + 1] }

(* The Range headers sent to the stream route of the server. *)
StreamRequests ==
  { NoRequest,
    [hasRange |-> TRUE, range |-> <<"bytes=", "0", "-", "0">>] }

(* reply is the response written by the step just taken, NoReply when the  *)
(* step wrote none.                                                        *)
NoReply ==
  [route |-> "none", id |-> "", status |-> 0, error |-> "none",
   awaited |-> FALSE, data |-> << >>, count |-> 0]

(* res.status(status).json(...); awaited tells a response written after    *)
(* processVideo settled from one written in the turn the request arrived.  *)
json(route, id, status, error, awaited, data, count) ==
  [route |-> route, id |-> id, status |-> status,
   error |-> error, awaited |-> awaited, data |-> data, count |-> count]

(* videoDatabase.findIndex(v => v.id === videoId), counted from 1; 0 when  *)
(* no record has the id (the code's -1).                                   *)
findIndex(db, videoId) ==
  IF \E k \in 1..Len(db) : db[k].id = videoId
  THEN CHOOSE k \in 1..Len(db) :
         /\ db[k].id = videoId
         /\ \A j \in 1..(k - 1) : db[j].id # videoId
  ELSE 0

spliceHead(db, videoIndex) == Tail(db)

(* videoDatabase.splice(videoIndex, 1) *)
splice(db, videoIndex) ==
  [j \in 1..(Len(db) - 1) |-> IF j < videoIndex THEN db[j] ELSE db[j + 1]]

(* The projection of a record that the responses carry. *)
publicData(video) == [videoId |-> video.id, size |-> video.size]

mapNewestFirst(db) == [k \in 1..Len(db) |-> publicData(db[Len(db) + 1 - k])]

(* videoDatabase.map(video => ({...})) *)
map(db) == [k \in 1..Len(db) |-> publicData(db[k])]

(* One call of processVideo: the request it serves and the state of each   *)
(* of its stages ("idle", "running", "ended", "failed") and of its promise *)
(* ("pending", "resolved", "rejected").                                    *)
InFlight == BagToSet(runs)

(* processVideo(inputPath, videoId) up to the call of ffmpeg.ffprobe; size  *)
(* is the metadata the awaiting upload handler holds for its response.     *)
processVideo(videoId, from, size) ==
  [id |-> videoId, from |-> from, size |-> size, ffprobe |-> "running", part1 |-> "idle",
   part2 |-> "idle", zip |-> "idle", promise |-> "pending"]

ffprobeOkBothParts(run) ==
  [run EXCEPT !.ffprobe = "ended", !.part1 = "running", !.part2 = "running"]

(* The ffprobe callback with a duration: part 1 is started. *)
ffprobeOk(run) ==
  [run EXCEPT !.ffprobe = "ended", !.part1 = "running"]

(* The ffprobe callback with err, or without a duration: reject. *)
ffprobeRejects(run) ==
  [run EXCEPT !.ffprobe = "failed", !.promise = "rejected"]

(* on('end') of part 1: part 2 is started. *)
part1OnEnd(run) ==
  [run EXCEPT !.part1 = "ended", !.part2 = "running"]

(* on('error') of part 1: reject. *)
part1OnError(run) ==
  [run EXCEPT !.part1 = "failed", !.promise = "rejected"]

(* on('end') of part 2: the zip output stream is opened and the archive    *)
(* is finalized into it.                                                   *)
part2OnEnd(run) ==
  [run EXCEPT !.part2 = "ended", !.zip = "running"]

(* on('error') of part 2: reject. *)
part2OnError(run) ==
  [run EXCEPT !.part2 = "failed", !.promise = "rejected"]

(* output.on('close'): resolve(zipPath). *)
outputOnClose(run) ==
  [run EXCEPT !.zip = "ended", !.promise = "resolved"]

(* archive.on('error'): reject. *)
archiveOnError(run) ==
  [run EXCEPT !.zip = "failed", !.promise = "rejected"]

(* The handler that awaited a run continues in the turn in which the run   *)
(* settled: the upload route answers 201 with the metadata it built before *)
(* the await, the process route 200, the catch of either 500               *)
(* PROCESSING_FAILED.                                                      *)
afterAwait(run) ==
  IF run.promise = "rejected"
  THEN json(run.from, run.id, 500, "PROCESSING_FAILED", TRUE, << >>, 0)
  ELSE IF run.from = "upload"
  THEN json("upload", run.id, 201, "none", TRUE,
            <<[videoId |-> run.id, size |-> run.size]>>, 0)
  ELSE json("process", run.id, 200, "none", TRUE, << >>, 0)

(* A callback takes a run from before to after: a pending run stays in     *)
(* flight, a settled one answers its request.                              *)
callback(before, after) ==
  IF after.promise = "pending"
  THEN /\ runs' = (runs (-) SetToBag({before})) (+) SetToBag({after})
       /\ reply' = NoReply
  ELSE /\ runs' = runs (-) SetToBag({before})
       /\ reply' = afterAwait(after)

(* POST /api/videos/upload stopped by multer before the handler: a file    *)
(* the filter refuses or a file above the limit reaches the error          *)
(* middleware.                                                             *)
uploadRefused ==
  /\ \E f \in UploadFiles :
       /\ f # NoUploadFile
       /\ \/ /\ f.mimetype \notin videoMimeTypes
             /\ reply' = json("upload", "", 400, "INVALID_FILE_TYPE", FALSE, << >>, 0)
          \/ /\ f.mimetype \in videoMimeTypes
             /\ f.size > fileSizeLimit
             /\ reply' = json("upload", "", 413, "FILE_TOO_LARGE", FALSE, << >>, 0)
  /\ UNCHANGED <<videoDatabase, disk, zips, runs, nextId, accepted, deleted>>

(* POST /api/videos/upload without a file *)
uploadNoFile ==
  /\ reply' = json("upload", "", 400, "VIDEO_FILE_REQUIRED", FALSE, << >>, 0)
  /\ UNCHANGED <<videoDatabase, disk, zips, runs, nextId, accepted, deleted>>

uploadUnrecorded ==
  /\ nextId <= Len(Uuids)
  /\ BagCardinality(runs) < MaxRuns
  /\ \E f \in UploadFiles :
       /\ f.mimetype \in videoMimeTypes
       /\ f.size <= fileSizeLimit
       /\ LET videoId == uuidv4(nextId)
          IN  /\ disk' = disk \cup {videoId}
              /\ runs' = runs (+) SetToBag({processVideo(videoId, "upload", f.size)})
              /\ accepted' = Append(accepted, videoId)
  /\ nextId' = nextId + 1
  /\ reply' = NoReply
  /\ UNCHANGED <<videoDatabase, zips, deleted>>

(* POST /api/videos/upload with an accepted file, up to the await: multer  *)
(* has stored the file, the record is pushed, processVideo is called.      *)
upload ==
  /\ nextId <= Len(Uuids)
  /\ BagCardinality(runs) < MaxRuns
  /\ \E f \in UploadFiles :
       /\ f.mimetype \in videoMimeTypes
       /\ f.size <= fileSizeLimit
       /\ LET videoId == uuidv4(nextId)
          IN  /\ videoDatabase' = Append(videoDatabase, [id |-> videoId, size |-> f.size])
              /\ disk' = disk \cup {videoId}
              /\ runs' = runs (+) SetToBag({processVideo(videoId, "upload", f.size)})
              /\ accepted' = Append(accepted, videoId)
  /\ nextId' = nextId + 1
  /\ reply' = NoReply
  /\ UNCHANGED <<zips, deleted>>

(* POST /api/videos/:videoId/process, up to the await or to a 404 *)
process ==
  \E videoId \in VideoIds :
    LET videoIndex == findIndex(videoDatabase, videoId)
    IN  \/ /\ videoIndex = 0
           /\ reply' = json("process", videoId, 404, "VIDEO_NOT_FOUND", FALSE, << >>, 0)
           /\ UNCHANGED <<videoDatabase, disk, zips, runs, nextId, accepted, deleted>>
        \/ /\ videoIndex # 0
           /\ videoId \notin disk
           /\ reply' = json("process", videoId, 404, "FILE_NOT_FOUND", FALSE, << >>, 0)
           /\ UNCHANGED <<videoDatabase, disk, zips, runs, nextId, accepted, deleted>>
        \/ /\ videoIndex # 0
           /\ videoId \in disk
           /\ BagCardinality(runs) < MaxRuns
           /\ runs' = runs (+) SetToBag({processVideo(videoId, "process", 0)})
           /\ reply' = NoReply
           /\ UNCHANGED <<videoDatabase, disk, zips, nextId, accepted, deleted>>

ffprobeCallbackRollsBack ==
  /\ \E run \in InFlight :
       /\ run.ffprobe = "running"
       /\ \/ /\ callback(run, ffprobeOk(run))
             /\ UNCHANGED <<videoDatabase, disk>>
          \/ /\ callback(run, ffprobeRejects(run))
             /\ videoDatabase' = SelectSeq(videoDatabase, LAMBDA v : v.id # run.id)
             /\ disk' = disk \ {run.id}
  /\ UNCHANGED <<zips, nextId, accepted, deleted>>

(* The ffprobe callback of a run *)
ffprobeCallback ==
  /\ \E run \in InFlight :
       /\ run.ffprobe = "running"
       /\ \/ callback(run, ffprobeOk(run))
          \/ callback(run, ffprobeRejects(run))
  /\ UNCHANGED <<videoDatabase, disk, zips, nextId, accepted, deleted>>

(* Part 1 of a run ends or fails. *)
part1Done ==
  /\ \E run \in InFlight :
       /\ run.part1 = "running"
       /\ \/ callback(run, part1OnEnd(run))
          \/ callback(run, part1OnError(run))
  /\ UNCHANGED <<videoDatabase, disk, zips, nextId, accepted, deleted>>

(* Part 2 of a run ends, and fs.createWriteStream(zipPath) creates or      *)
(* truncates the archive, or part 2 fails.                                 *)
part2Done ==
  /\ \E run \in InFlight :
       /\ run.part2 = "running"
       /\ \/ /\ callback(run, part2OnEnd(run))
             /\ zips' = [zips EXCEPT ![run.id] = "partial"]
          \/ /\ callback(run, part2OnError(run))
             /\ UNCHANGED zips
  /\ UNCHANGED <<videoDatabase, disk, nextId, accepted, deleted>>

(* The zip output stream of a run closes, or the archive fails and leaves  *)
(* what it has written.                                                    *)
zipDone ==
  /\ \E run \in InFlight :
       /\ run.zip = "running"
       /\ \/ /\ callback(run, outputOnClose(run))
             /\ zips' = [zips EXCEPT ![run.id] = "complete"]
          \/ /\ callback(run, archiveOnError(run))
             /\ UNCHANGED zips
  /\ UNCHANGED <<videoDatabase, disk, nextId, accepted, deleted>>

(* GET /api/videos/:videoId/download *)
download ==
  /\ \E videoId \in VideoIds :
       reply' =
         IF zips[videoId] = "none"
         THEN json("download", videoId, 404, "PROCESSED_FILE_NOT_FOUND", FALSE, << >>, 0)
         ELSE json("download", videoId, 200, "none", FALSE, <<zips[videoId]>>, 0)
  /\ UNCHANGED <<videoDatabase, disk, zips, runs, nextId, accepted, deleted>>

(* GET /api/videos/:videoId *)
getVideo ==
  /\ \E videoId \in VideoIds :
       LET videoIndex == findIndex(videoDatabase, videoId)
       IN  reply' =
             IF videoIndex = 0
             THEN json("get", videoId, 404, "VIDEO_NOT_FOUND", FALSE, << >>, 0)
             ELSE json("get", videoId, 200, "none", FALSE,
                       <<publicData(videoDatabase[videoIndex])>>, 0)
  /\ UNCHANGED <<videoDatabase, disk, zips, runs, nextId, accepted, deleted>>

streamReplyNoDiskCheck(db, files, videoId, request) ==
  LET videoIndex == findIndex(db, videoId)
  IN  IF videoIndex = 0
      THEN json("stream", videoId, 404, "VIDEO_NOT_FOUND", FALSE, << >>, 0)
      ELSE LET r == streamFile(db[videoIndex].size, request)
           IN  json("stream", videoId, r.status, r.error, FALSE, <<r>>, 0)

(* The response of GET /api/videos/:videoId/stream as a function of what   *)
(* the handler reads: the store, the disk, the id and the Range header.    *)
streamReply(db, files, videoId, request) ==
  LET videoIndex == findIndex(db, videoId)
  IN  IF videoIndex = 0
      THEN json("stream", videoId, 404, "VIDEO_NOT_FOUND", FALSE, << >>, 0)
      ELSE IF videoId \notin files
      THEN json("stream", videoId, 404, "FILE_NOT_FOUND", FALSE, << >>, 0)
      ELSE LET r == streamFile(db[videoIndex].size, request)
           IN  json("stream", videoId, r.status, r.error, FALSE, <<r>>, 0)

streamConsumes ==
  /\ \E videoId \in VideoIds, request \in StreamRequests :
       /\ reply' = streamReply(videoDatabase, disk, videoId, request)
       /\ disk' = disk \ {videoId}
  /\ UNCHANGED <<videoDatabase, zips, runs, nextId, accepted, deleted>>

(* GET /api/videos/:videoId/stream *)
stream ==
  /\ \E videoId \in VideoIds, request \in StreamRequests :
       reply' = streamReply(videoDatabase, disk, videoId, request)
  /\ UNCHANGED <<videoDatabase, disk, zips, runs, nextId, accepted, deleted>>

(* GET /api/videos *)
list ==
  /\ LET videos == map(videoDatabase)
     IN  reply' = json("list", "", 200, "none", FALSE, videos, Len(videos))
  /\ UNCHANGED <<videoDatabase, disk, zips, runs, nextId, accepted, deleted>>

deleteRemovesZip ==
  /\ \E videoId \in VideoIds :
       LET videoIndex == findIndex(videoDatabase, videoId)
       IN  \/ /\ videoIndex = 0
              /\ reply' = json("delete", videoId, 404, "VIDEO_NOT_FOUND", FALSE, << >>, 0)
              /\ UNCHANGED <<videoDatabase, disk, zips, deleted>>
           \/ /\ videoIndex # 0
              /\ disk' = disk \ {videoId}
              /\ videoDatabase' = splice(videoDatabase, videoIndex)
              /\ zips' = [zips EXCEPT ![videoId] = "none"]
              /\ reply' = json("delete", videoId, 200, "none", FALSE, << >>, 0)
              /\ deleted' = deleted \cup {videoId}
  /\ UNCHANGED <<runs, nextId, accepted>>

(* DELETE /api/videos/:videoId *)
delete ==
  /\ \E videoId \in VideoIds :
       LET videoIndex == findIndex(videoDatabase, videoId)
       IN  \/ /\ videoIndex = 0
              /\ reply' = json("delete", videoId, 404, "VIDEO_NOT_FOUND", FALSE, << >>, 0)
              /\ UNCHANGED <<videoDatabase, disk, deleted>>
           \/ /\ videoIndex # 0
              /\ disk' = disk \ {videoId}
              /\ videoDatabase' = splice(videoDatabase, videoIndex)
              /\ reply' = json("delete", videoId, 200, "none", FALSE, << >>, 0)
              /\ deleted' = deleted \cup {videoId}
  /\ UNCHANGED <<zips, runs, nextId, accepted>>

(* An uploaded file disappears from the uploads directory without a        *)
(* request (the case the existsSync checks of the handlers provide for).   *)
fileLost ==
  /\ \E videoId \in disk : disk' = disk \ {videoId}
  /\ reply' = NoReply
  /\ UNCHANGED <<videoDatabase, zips, runs, nextId, accepted, deleted>>

----------------------------------------------------------------------------
(* SpecStream *)

InitClientVars ==
  /\ uploadState = initialUploadState
  /\ selectedFile = Null
  /\ numberOfParts = 2
  /\ ffmpegLoad = "new"
  /\ pc = "idle"
  /\ file = NoFile
  /\ numParts = 0
  /\ i = 0
  /\ duration = 0
  /\ partDuration = 0
  /\ parts = << >>
  /\ partNames = << >>
  /\ windows = << >>

InitStreamVars ==
  /\ req = NoRequest
  /\ res = NoResponse
  /\ handled = FALSE

InitServerVars ==
  /\ videoDatabase = << >>
  /\ disk = {}
  /\ zips = [v \in VideoIds |-> "none"]
  /\ runs = EmptyBag
  /\ reply = NoReply
  /\ nextId = 1
  /\ accepted = << >>
  /\ deleted = {}

InitStream ==
  /\ fileSize \in 0..MaxFileSize
  /\ InitStreamVars
  /\ InitClientVars
  /\ InitServerVars

(* A request arrives at the idle server; the handler runs to its response  *)
(* in one step (it awaits nothing).                                        *)
StreamWithRange ==
  /\ ~handled
  /\ \E h \in RangeHeaders :
       /\ req' = [hasRange |-> TRUE, range |-> h]
       /\ res' = streamFile(fileSize, req')
  /\ handled' = TRUE
  /\ UNCHANGED <<fileSize, clientVars, serverVars>>

StreamWithoutRange ==
  /\ ~handled
  /\ req' = NoRequest
  /\ res' = streamFile(fileSize, req')
  /\ handled' = TRUE
  /\ UNCHANGED <<fileSize, clientVars, serverVars>>

(* The response has been sent; request and response objects are dropped.   *)
StreamEnd ==
  /\ handled
  /\ req' = NoRequest
  /\ res' = NoResponse
  /\ handled' = FALSE
  /\ UNCHANGED <<fileSize, clientVars, serverVars>>

NextStream == StreamWithRange \/ StreamWithoutRange \/ StreamEnd

SpecStream == InitStream /\ [][NextStream]_vars

----------------------------------------------------------------------------
(* SpecClient *)

InitClient ==
  /\ fileSize = 0
  /\ InitStreamVars
  /\ InitClientVars
  /\ InitServerVars

NextClient ==
  \/ (loadFFmpeg /\ UNCHANGED <<streamVars, serverVars>>)
  \/ (loadFFmpegDone /\ UNCHANGED <<streamVars, serverVars>>)
  \/ (handleFileSelect /\ UNCHANGED <<streamVars, serverVars>>)
  \/ (setNumberOfParts /\ UNCHANGED <<streamVars, serverVars>>)
  \/ (handleUpload /\ UNCHANGED <<streamVars, serverVars>>)
  \/ (writeInput /\ UNCHANGED <<streamVars, serverVars>>)
  \/ (execProbe /\ UNCHANGED <<streamVars, serverVars>>)
  \/ (loadedMetadata /\ UNCHANGED <<streamVars, serverVars>>)
  \/ (execSegment /\ UNCHANGED <<streamVars, serverVars>>)
  \/ (execReverse /\ UNCHANGED <<streamVars, serverVars>>)
  \/ (writeConcat /\ UNCHANGED <<streamVars, serverVars>>)
  \/ (execConcat /\ UNCHANGED <<streamVars, serverVars>>)
  \/ (readOutput /\ UNCHANGED <<streamVars, serverVars>>)
  \/ (cleanupPart /\ UNCHANGED <<streamVars, serverVars>>)
  \/ (deleteInput /\ UNCHANGED <<streamVars, serverVars>>)
  \/ (splitAnotherVideo /\ UNCHANGED <<streamVars, serverVars>>)

SpecClient == InitClient /\ [][NextClient]_vars

(* SpecClientFair: the component when every pending await settles: the     *)
(* load of the FFmpeg instance and every operation on it end (they return  *)
(* or throw), and an event whose handler is set and that the browser fires *)
(* is delivered.  What the user does is under no obligation.               *)
splitStep ==
  \/ writeInput
  \/ execProbe
  \/ loadedMetadata
  \/ execSegment
  \/ execReverse
  \/ writeConcat
  \/ execConcat
  \/ readOutput
  \/ cleanupPart
  \/ deleteInput

SpecClientFair ==
  /\ InitClient
  /\ [][NextClient]_vars
  /\ WF_vars(loadFFmpegDone /\ UNCHANGED <<streamVars, serverVars>>)
  /\ WF_vars(splitStep /\ UNCHANGED <<streamVars, serverVars>>)

(* Spec: the server.  Requests arrive in any order and at any moment, also *)
(* while processVideo runs are in flight.                                  *)
Init ==
  /\ fileSize = 0
  /\ InitStreamVars
  /\ InitClientVars
  /\ InitServerVars

Next ==
  \/ (uploadRefused /\ UNCHANGED <<streamVars, clientVars>>)
  \/ (uploadNoFile /\ UNCHANGED <<streamVars, clientVars>>)
  \/ (upload /\ UNCHANGED <<streamVars, clientVars>>)
  \/ (process /\ UNCHANGED <<streamVars, clientVars>>)
  \/ (ffprobeCallback /\ UNCHANGED <<streamVars, clientVars>>)
  \/ (part1Done /\ UNCHANGED <<streamVars, clientVars>>)
  \/ (part2Done /\ UNCHANGED <<streamVars, clientVars>>)
  \/ (zipDone /\ UNCHANGED <<streamVars, clientVars>>)
  \/ (download /\ UNCHANGED <<streamVars, clientVars>>)
  \/ (getVideo /\ UNCHANGED <<streamVars, clientVars>>)
  \/ (stream /\ UNCHANGED <<streamVars, clientVars>>)
  \/ (list /\ UNCHANGED <<streamVars, clientVars>>)
  \/ (delete /\ UNCHANGED <<streamVars, clientVars>>)
  \/ (fileLost /\ UNCHANGED <<streamVars, clientVars>>)

Spec == Init /\ [][Next]_vars

(* SpecSplit: one split request, served by the browser component or by the *)
(* server.  The component never calls the server and the two share no      *)
(* state, so each is explored from the state in which the other is at      *)
(* rest.                                                                   *)
NextSplit ==
  \/ (InitServerVars /\ NextClient)
  \/ (InitClientVars /\ Next)

SpecSplit == Init /\ [][NextSplit]_vars

----------------------------------------------------------------------------
(* Properties of the stream handler, checked under SpecStream *)

(* The largest byte offset the properties range over. *)
MaxOffset == 34

(* The header bytes=<start>-<end> and the open-ended header bytes=<start>- *)
ClosedRange(s, e) == <<"bytes=">> \o Decimal(s) \o <<"-">> \o Decimal(e)

OpenRange(s) == <<"bytes=">> \o Decimal(s) \o <<"-">>

(* The request being answered carries the header h. *)
Asks(h) == handled /\ req.hasRange /\ req.range = h

(* h matches bytes=<start>-<end>? : the literal, one or more digits, the   *)
(* separator, then digits or nothing.                                      *)
WellFormedRange(h) ==
  /\ Len(h) >= 3
  /\ h[1] = "bytes="
  /\ \E k \in 3..Len(h) :
       /\ h[k] = "-"
       /\ \A j \in 2..(k - 1) : h[j] \in Digits
       /\ \A j \in (k + 1)..Len(h) : h[j] \in Digits

(* C1: for totalLength > 0, a request bytes=<start>-<end> with             *)
(* start >= totalLength or start > end is answered with status 416.        *)
C1_UnsatisfiableIs416 ==
  \A s, e \in 0..MaxOffset :
    (fileSize > 0 /\ Asks(ClosedRange(s, e)) /\ (s >= fileSize \/ s > e))
      => res.status = 416

(* C2: for totalLength > 0, a request with 0 <= start < totalLength and    *)
(* end >= totalLength is answered 206 with the end clamped to              *)
(* totalLength-1: Content-Range end and Content-Length describe no byte    *)
(* past the end of the resource.                                           *)
C2_EndClamped ==
  \A s, e \in 0..MaxOffset :
    (fileSize > 0 /\ Asks(ClosedRange(s, e)) /\ s < fileSize /\ e >= fileSize)
      => /\ res.status = 206
         /\ res.contentRange.end = fileSize - 1
         /\ res.contentLength = fileSize - s

(* C3: every stream response whose status is not 416 serves a window with  *)
(* 0 <= start <= end <= totalLength-1 and length = end-start+1 > 0.        *)
C3_ServedWindowInBounds ==
  (handled /\ fileSize > 0 /\ res.status # 416)
    => /\ res.read.opened
       /\ 0 <= res.read.start
       /\ res.read.start <= res.read.end
       /\ res.read.end <= fileSize - 1
       /\ res.contentLength = res.read.end - res.read.start + 1
       /\ res.contentLength > 0

(* C4: a Range header that does not match bytes=<start>-<end>? yields a    *)
(* 416 outcome; no fault is thrown and the byte source is never opened     *)
(* with a non-integer offset.                                              *)
C4_MalformedIs416 ==
  (handled /\ fileSize > 0 /\ req.hasRange /\ req.range # << >>
     /\ ~WellFormedRange(req.range))
    => /\ res.status = 416
       /\ res.fault = "none"

(* C5: a request with 0 <= start <= end < totalLength is answered 206 with *)
(* Content-Range bytes start-end/totalLength, Accept-Ranges bytes,         *)
(* Content-Length end-start+1, and the byte source is opened on exactly    *)
(* the inclusive window [start, end].                                      *)
C5_ValidRangeServed ==
  \A s, e \in 0..MaxOffset :
    (Asks(ClosedRange(s, e)) /\ s <= e /\ e < fileSize)
      => /\ res.status = 206
         /\ res.contentRange = [kind |-> "range", start |-> s, end |-> e, total |-> fileSize]
         /\ res.acceptRanges = "bytes"
         /\ res.contentLength = e - s + 1
         /\ s + res.contentLength - 1 = e
         /\ res.read = [opened |-> TRUE, start |-> s, end |-> e]
         /\ res.bodyBytes = res.contentLength

C5_Witness ==
  /\ fileSize = 3
  /\ Asks(ClosedRange(1, 2))
  /\ res.status = 206
  /\ res.contentLength = 2

(* C6: for totalLength > 0, a request without Range header is answered 200 *)
(* with the whole file (start 0, end totalLength-1), Content-Length        *)
(* totalLength and no Content-Range header.                                *)
C6_NoRangeServesWholeFile ==
  (handled /\ fileSize > 0 /\ ~req.hasRange)
    => /\ res.status = 200
       /\ res.read = [opened |-> TRUE, start |-> 0, end |-> fileSize - 1]
       /\ res.contentLength = fileSize
       /\ res.bodyBytes = fileSize
       /\ res.contentRange.kind = "none"

C6_Witness ==
  /\ handled
  /\ fileSize = 3
  /\ ~req.hasRange
  /\ res.status = 200
  /\ res.contentLength = 3

(* C7: an open-ended request bytes=<start>- with 0 <= start < totalLength  *)
(* is answered 206 and the served end is totalLength-1.                    *)
C7_OpenEndedServesToEnd ==
  \A s \in 0..MaxOffset :
    (Asks(OpenRange(s)) /\ s < fileSize)
      => /\ res.status = 206
         /\ res.contentRange.end = fileSize - 1
         /\ res.read.end = fileSize - 1
         /\ res.contentLength = fileSize - s

C7_Witness ==
  /\ fileSize = 3
  /\ Asks(OpenRange(1))
  /\ res.status = 206
  /\ res.read.end = 2

(* C8: an unsatisfiable range request (start >= totalLength or             *)
(* start > end) is answered with Content-Range bytes */totalLength and an  *)
(* empty body: no read of the file is started and no file byte is sent.    *)
C8_UnsatisfiableHasNoBody ==
  \A s, e \in 0..MaxOffset :
    (fileSize > 0 /\ Asks(ClosedRange(s, e)) /\ (s >= fileSize \/ s > e))
      => /\ res.contentRange = [kind |-> "star", start |-> 0, end |-> 0, total |-> fileSize]
         /\ ~res.read.opened
         /\ res.bodyBytes = 0

----------------------------------------------------------------------------
(* Properties of the client split, checked under SpecClient *)

(* x and y differ by no more than the rounding of one operation. *)
WithinTolerance(x, y) ==
  LET diff == IF x >= y THEN x - y ELSE y - x
      big  == IF x >= y THEN x ELSE y
  IN  diff * Pow2(Precision - 1) <= big

RECURSIVE SumOfLengths(_)
SumOfLengths(ws) ==
  IF ws = << >> THEN 0
  ELSE (Head(ws).endTime - Head(ws).startTime) + SumOfLengths(Tail(ws))

(* C9: the windows handed to the per-segment transform start at 0, are     *)
(* contiguous (each window's endTime is the next window's startTime) and,  *)
(* once all partCount windows are handed, end at totalDuration.            *)
C9_WindowsContiguousCover ==
  /\ windows # << >> => windows[1].startTime = 0
  /\ \A k \in 1..(Len(windows) - 1) : windows[k].endTime = windows[k + 1].startTime
  /\ (numParts >= 1 /\ Len(windows) = numParts)
       => windows[Len(windows)].endTime = duration

(* C10: the transform of part i is invoked on the window that begins at    *)
(* i * (totalDuration / partCount) and has length totalDuration /          *)
(* partCount; windows of distinct parts do not overlap and the window      *)
(* lengths sum to totalDuration.                                           *)
C10_WindowPerPart ==
  /\ \A k \in 1..Len(windows) :
       /\ windows[k].index = k - 1
       /\ windows[k].startTime = fmul(k - 1, partDuration)
       /\ WithinTolerance(windows[k].endTime - windows[k].startTime, partDuration)
  /\ \A j, k \in 1..Len(windows) : j < k => windows[j].endTime <= windows[k].startTime
  /\ (numParts >= 1 /\ Len(windows) = numParts)
       => WithinTolerance(SumOfLengths(windows), duration)

(* C11: the last window's endTime is exactly totalDuration (it is not the  *)
(* rounded product partCount * (totalDuration / partCount)), so no tail of *)
(* the media is left unprocessed.                                          *)
C11_LastWindowEndsAtDuration ==
  (numParts >= 1 /\ Len(windows) = numParts /\ duration > 0)
    => windows[numParts].endTime = duration

(* C12: segment planning hands no window to the per-segment transform when *)
(* the duration is unknown, zero, negative or non-finite, or when          *)
(* partCount < 1.                                                          *)
C12_NoWindowForInvalidInput ==
  windows # << >> => (duration > 0 /\ numParts >= 1)

(* C13: a split hands the windows to the transform in ascending index      *)
(* order 0,1,...; parts and partNames always have equal length; result i   *)
(* is the output for window i and is named <baseName>_part<i+1> (with the  *)
(* container extension); a successful split returns exactly numParts       *)
(* results.                                                                *)
PartsInWindowOrder(f, ps, names) ==
  /\ Len(ps) = Len(names)
  /\ \A k \in 1..Len(ps) :
       /\ ps[k].output = k
       /\ ps[k].of.index = k - 1
       /\ baseName(names[k]) = baseName(f.name) \o <<"_part">> \o Decimal(k)

C13_PartsInWindowOrder ==
  /\ \A k \in 1..Len(windows) : windows[k].index = k - 1
  /\ Len(parts) = Len(partNames)
  /\ pc # "idle" =>
       /\ PartsInWindowOrder(file, parts, partNames)
       /\ \A k \in 1..Len(parts) : parts[k].of = windows[k]
       /\ pc = "deleteInput" => Len(parts) = numParts
  /\ (uploadState.splitVideos # Null /\ uploadState.result # Null) =>
       /\ Len(uploadState.splitVideos.parts) = uploadState.result.numberOfParts
       /\ PartsInWindowOrder(uploadState.result.data, uploadState.splitVideos.parts,
                             uploadState.splitVideos.partNames)

C13_Witness ==
  /\ uploadState.splitVideos # Null
  /\ uploadState.result # Null
  /\ uploadState.result.numberOfParts = 3
  /\ Len(uploadState.splitVideos.partNames) = 3
  /\ uploadState.splitVideos.partNames[3] = <<"a", ".", "b", "_part", "3", ".", "mp4">>

----------------------------------------------------------------------------
(* Properties of the split pipelines, checked under SpecSplit *)

Stages == {"ffprobe", "part1", "part2", "zip"}

Running(run) == {st \in Stages : run[st] = "running"}

(* A run in flight has exactly one stage running, and a stage has started  *)
(* only if the stage before it has ended.                                  *)
StagesInSequence(run) ==
  /\ Cardinality(Running(run)) = 1
  /\ run.part1 # "idle" => run.ffprobe = "ended"
  /\ run.part2 # "idle" => run.part1 = "ended"
  /\ run.zip # "idle" => run.part2 = "ended"

(* The component is extracting window i + 1 only when i parts have been    *)
(* read back, and has a window without its part only between the extract   *)
(* and the read of that part.                                              *)
WindowsInSequence ==
  /\ Len(parts) <= Len(windows)
  /\ Len(windows) <= Len(parts) + 1
  /\ pc = "segment" => (Len(windows) = i /\ Len(parts) = i)
  /\ Len(windows) = Len(parts) + 1 => pc \in {"reverse", "concatFile", "concat", "read"}

(* C14: within one split request at most one transcoder step runs at a     *)
(* time: the component starts window i + 1 only after part i is finished;  *)
(* on the server part 2 starts only after part 1 has ended, the zip only   *)
(* after part 2 has ended, and a handler that awaited processVideo answers *)
(* with success only in the step in which the zip output stream of its run *)
(* closes.                                                                 *)
C14_OneStepAtATime ==
  [][ /\ WindowsInSequence'
      /\ \A run \in BagToSet(runs') : StagesInSequence(run)
      /\ (reply'.awaited /\ reply'.status \in {200, 201})
           => \E run \in InFlight :
                /\ run.zip = "running"
                /\ run.id = reply'.id
                /\ run.from = reply'.route
                /\ runs' = runs (-) SetToBag({run}) ]_vars

(* Two runs are in flight, one of them writing its zip, and a run has just *)
(* been answered with success.                                             *)
C14_Witness ==
  /\ reply.awaited
  /\ reply.status = 201
  /\ \E run \in InFlight : run.part2 = "running"

----------------------------------------------------------------------------
(* Properties of the server, checked under Spec *)

(* C15: a stream request, with or without a Range header and whatever its  *)
(* outcome, leaves the metadata store, the stored files, the processed     *)
(* archives and the runs in flight as they were, and its response is the   *)
(* one the store and the disk determine, whatever else is in progress.     *)
C15_StreamHasNoSideEffects ==
  [][ reply'.route = "stream"
        => /\ videoDatabase' = videoDatabase
           /\ disk' = disk
           /\ zips' = zips
           /\ runs' = runs
           /\ \E request \in StreamRequests :
                reply' = streamReply(videoDatabase', disk', reply'.id, request) ]_vars

(* A range request is served while a processVideo run is in flight. *)
C15_Witness ==
  /\ reply.route = "stream"
  /\ reply.status = 206
  /\ runs # EmptyBag

Listed(data) == {data[k].videoId : k \in 1..Len(data)}

(* C17: once a DELETE of an id has succeeded, no record has the id and its *)
(* uploaded file is not on disk; a get, stream, process or delete request  *)
(* that arrives later for the id is answered 404 VIDEO_NOT_FOUND; a list   *)
(* does not contain the id; and the DELETE removed that record and that    *)
(* file only, leaving the other records as they were and in their order.   *)
C17_DeletedStaysDeleted ==
  [][ /\ \A videoId \in deleted' :
           /\ findIndex(videoDatabase', videoId) = 0
           /\ videoId \notin disk'
      /\ ( /\ reply'.route \in {"get", "stream", "process", "delete"}
           /\ ~reply'.awaited
           /\ reply'.id \in deleted )
           => (reply'.status = 404 /\ reply'.error = "VIDEO_NOT_FOUND")
      /\ reply'.route = "list" => Listed(reply'.data) \cap deleted' = {}
      /\ (reply'.route = "delete" /\ reply'.status = 200)
           => /\ reply'.id \in deleted'
              /\ videoDatabase' = SelectSeq(videoDatabase, LAMBDA v : v.id # reply'.id)
              /\ disk' = disk \ {reply'.id}
              /\ Len(videoDatabase') = Len(videoDatabase) - 1 ]_vars

(* A stream request for a deleted id is answered 404 VIDEO_NOT_FOUND while *)
(* the record uploaded after it is still stored.                           *)
C17_Witness ==
  /\ reply.route = "stream"
  /\ reply.id = Uuids[1]
  /\ reply.id \in deleted
  /\ reply.status = 404
  /\ reply.error = "VIDEO_NOT_FOUND"
  /\ Len(videoDatabase) = 1
  /\ videoDatabase[1].id = Uuids[2]

(* The ids of the accepted uploads that no DELETE has removed, in upload   *)
(* order.                                                                  *)
Kept == SelectSeq(accepted, LAMBDA videoId : videoId \notin deleted)

(* C18: GET /api/videos lists exactly the videos whose upload was accepted *)
(* (the file passed the upload checks, whatever became of its processing)  *)
(* and that have not been deleted since, in upload order, and count is the *)
(* number of videos listed.                                                *)
C18_ListIsAcceptedNotDeleted ==
  reply.route = "list"
    => /\ reply.status = 200
       /\ Len(reply.data) = Len(Kept)
       /\ \A k \in 1..Len(Kept) : reply.data[k].videoId = Kept[k]
       /\ reply.count = Len(reply.data)

(* Two uploads are listed in upload order; the second is still being       *)
(* processed.                                                              *)
C18_Witness ==
  /\ reply.route = "list"
  /\ reply.count = 2
  /\ reply.data[1].videoId = Uuids[1]
  /\ reply.data[2].videoId = Uuids[2]
  /\ \E run \in InFlight : run.id = Uuids[2] /\ run.from = "upload"

(* C19: a get, stream, process or delete request for an id that no record  *)
(* has is answered 404 VIDEO_NOT_FOUND; a stream or process request for an *)
(* id whose record exists and whose file is not on disk is answered 404    *)
(* FILE_NOT_FOUND; and a step that writes either answer leaves             *)
(* videoDatabase as it was.                                                *)
C19_LookupErrors ==
  [][ /\ ( /\ reply'.route \in {"get", "stream", "process", "delete"}
           /\ ~reply'.awaited
           /\ findIndex(videoDatabase, reply'.id) = 0 )
           => (reply'.status = 404 /\ reply'.error = "VIDEO_NOT_FOUND")
      /\ ( /\ reply'.route \in {"stream", "process"}
           /\ ~reply'.awaited
           /\ findIndex(videoDatabase, reply'.id) # 0
           /\ reply'.id \notin disk )
           => (reply'.status = 404 /\ reply'.error = "FILE_NOT_FOUND")
      /\ reply'.error \in {"VIDEO_NOT_FOUND", "FILE_NOT_FOUND"}
           => videoDatabase' = videoDatabase ]_vars

(* A stream request is answered 404 FILE_NOT_FOUND for a stored record     *)
(* whose file has gone.                                                    *)
C19_Witness ==
  /\ reply.route = "stream"
  /\ reply.status = 404
  /\ reply.error = "FILE_NOT_FOUND"
  /\ findIndex(videoDatabase, reply.id) # 0
  /\ reply.id \notin disk

StoredIn(db, videoId) == findIndex(db, videoId) # 0

Stored(videoId) == StoredIn(videoDatabase, videoId)

UploadRuns(bag, videoId) ==
  {run \in BagToSet(bag) : run.from = "upload" /\ run.id = videoId}

----------------------------------------------------------------------------
(* Further properties of the component, checked under SpecClient *)

(* C21: the selected part count is an integer from 2 to 6 in every state,  *)
(* also after "Split Another Video", and so is the part count of a running *)
(* split.                                                                  *)
C21_PartCountInRange ==
  /\ numberOfParts \in sliderMin..sliderMax
  /\ pc # "idle" => numParts \in sliderMin..sliderMax

(* A split with six parts is running. *)
C21_Witness ==
  /\ pc = "segment"
  /\ numParts = 6
  /\ numberOfParts = 6

----------------------------------------------------------------------------
(* Further properties of the server, checked under Spec *)

(* C22: a download is answered 200 only with an archive whose output       *)
(* stream has closed; while the archive of the id is missing or still      *)
(* being written the answer is 404 PROCESSED_FILE_NOT_FOUND.               *)
C22_DownloadOnlyComplete ==
  reply.route = "download"
    => IF zips[reply.id] = "complete"
       THEN reply.status = 200 /\ reply.data = <<"complete">>
       ELSE reply.status = 404 /\ reply.error = "PROCESSED_FILE_NOT_FOUND"

RunsOf(videoId) == {run \in InFlight : run.id = videoId}

(* C23: at most one processVideo run is in flight for an id at any time,   *)
(* counting the run the upload starts and the runs of process requests.    *)
C23_OneRunPerId ==
  \A videoId \in VideoIds :
    /\ Cardinality(RunsOf(videoId)) <= 1
    /\ \A run \in RunsOf(videoId) : CopiesIn(run, runs) = 1

(* C24: the step that accepts an upload stores its record and its file     *)
(* and starts the run at its first stage; no step but a successful DELETE  *)
(* of the id takes a record out of videoDatabase; the step that answers an *)
(* upload 500 PROCESSING_FAILED changes neither videoDatabase nor the      *)
(* disk, and unless the id was deleted meanwhile its record is stored and  *)
(* listed after it.                                                        *)
C24_FailedUploadKeepsRecord ==
  [][ /\ \A videoId \in VideoIds :
           /\ (UploadRuns(runs', videoId) # {} /\ UploadRuns(runs, videoId) = {})
                => /\ StoredIn(videoDatabase', videoId)
                   /\ videoId \in disk'
                   /\ \A run \in UploadRuns(runs', videoId) : run.ffprobe = "running"
           /\ (Stored(videoId) /\ ~StoredIn(videoDatabase', videoId))
                => /\ reply'.route = "delete"
                   /\ reply'.status = 200
                   /\ reply'.id = videoId
      /\ (reply'.route = "upload" /\ reply'.status = 500)
           => /\ reply'.error = "PROCESSING_FAILED"
              /\ videoDatabase' = videoDatabase
              /\ disk' = disk
              /\ reply'.id \notin deleted
                   => /\ StoredIn(videoDatabase', reply'.id)
                      /\ reply'.id \in Listed(map(videoDatabase')) ]_vars

(* An upload has been answered 500 PROCESSING_FAILED; its record is stored *)
(* and its file is on disk, so that a process request would start a run.   *)
C24_Witness ==
  /\ reply.route = "upload"
  /\ reply.status = 500
  /\ Stored(reply.id)
  /\ reply.id \in disk

(* C25: a successful DELETE leaves the processed archives and the runs in  *)
(* flight as they were, and a download is answered from the archive alone, *)
(* whether or not the id still has a record: 200 when the archive exists.  *)
C25_DeleteKeepsProcessedOutput ==
  [][ /\ reply'.route = "delete" => (zips' = zips /\ runs' = runs)
      /\ (reply'.route = "download" /\ zips[reply'.id] # "none")
           => reply'.status = 200
      /\ (reply'.route = "get" /\ reply'.id \in deleted)
           => reply'.status = 404 ]_vars

(* After a DELETE of the id, the download of its finished archive is       *)
(* answered 200.                                                           *)
C25_Witness ==
  /\ reply.route = "download"
  /\ reply.status = 200
  /\ reply.id \in deleted
  /\ ~Stored(reply.id)
  /\ zips[reply.id] = "complete"

(* C27: a split is in flight exactly while uploading is true, and then the *)
(* selected file and part count cannot change and no further split can     *)
(* start: the running split works on the file and the part count on        *)
(* display, and a finished split reports them.                             *)
C27_OneSplitInFlight ==
  [][ /\ (pc' # "idle") = uploadState'.uploading
      /\ pc' # "idle" => (file' = selectedFile' /\ numParts' = numberOfParts')
      /\ uploadState.uploading
           => /\ selectedFile' = selectedFile
              /\ numberOfParts' = numberOfParts
              /\ uploadState'.uploading => (file' = file /\ numParts' = numParts)
      /\ (uploadState.uploading /\ uploadState'.result # Null)
           => /\ uploadState'.result.data = selectedFile'
              /\ uploadState'.result.numberOfParts = numberOfParts'
              /\ uploadState'.result.data = file
              /\ uploadState'.result.numberOfParts = numParts ]_vars

(* A split into five parts has finished and reports the file and the part  *)
(* count on display.                                                       *)
C27_Witness ==
  /\ uploadState.result # Null
  /\ uploadState.result.numberOfParts = 5
  /\ numberOfParts = 5
  /\ uploadState.result.data = selectedFile
  /\ Len(uploadState.splitVideos.parts) = 5

(* C28 as stated, its invariant: splitVideos is set only with uploading    *)
(* false, progress 100 and a result whose success is true.                 *)
C28_SplitVideosOnlyWithResult ==
  uploadState.splitVideos # Null
    => /\ ~uploadState.uploading
       /\ uploadState.progress = 100
       /\ uploadState.result # Null
       /\ uploadState.result.success

(* C28, amended: splitVideos is set only with uploading false and progress *)
(* 100, and with a result whose success is true unless a refused file      *)
(* selection has since cleared the result and set an error; the step in    *)
(* which a split fails leaves uploading false, progress 0, splitVideos     *)
(* null and an error; starting a split or selecting another valid file     *)
(* clears result, error and splitVideos.                                   *)
C28_ResultStateConsistent ==
  [][ /\ uploadState'.splitVideos # Null
           => /\ ~uploadState'.uploading
              /\ uploadState'.progress = 100
              /\ \/ uploadState'.result # Null /\ uploadState'.result.success
                 \/ uploadState'.result = Null /\ uploadState'.error # Null
      /\ (uploadState.uploading /\ ~uploadState'.uploading /\ uploadState'.result = Null)
           => /\ uploadState'.progress = 0
              /\ uploadState'.splitVideos = Null
              /\ uploadState'.error # Null
      /\ ( \/ ~uploadState.uploading /\ uploadState'.uploading
           \/ selectedFile' # selectedFile /\ selectedFile' # Null )
           => /\ uploadState'.result = Null
              /\ uploadState'.error = Null
              /\ uploadState'.splitVideos = Null ]_vars

(* After a successful split a refused selection has cleared the result:    *)
(* the parts are still held.                                               *)
C28_Witness ==
  /\ uploadState.splitVideos # Null
  /\ uploadState.result = Null
  /\ uploadState.error # Null
  /\ uploadState.progress = 100
  /\ ~uploadState.uploading

Refusals == {[message |-> "Invalid file type"], [message |-> "File too large"]}

(* C29: the step in which handleFileSelect refuses a file (wrong type, or  *)
(* above 500MB) sets the error and clears the result and leaves the        *)
(* selected file and splitVideos as they were; a file selected before is   *)
(* still selected and the split button is enabled for it.                  *)
C29_RefusalKeepsSelection ==
  [][ (uploadState'.error \in Refusals /\ uploadState'.error # uploadState.error)
        => /\ uploadState'.result = Null
           /\ selectedFile' = selectedFile
           /\ uploadState'.splitVideos = uploadState.splitVideos
           /\ ~uploadState'.uploading
           /\ uploadState'.progress = uploadState.progress
           /\ UNCHANGED <<numberOfParts, splitVars>> ]_vars

(* A file above 500MB was refused while a valid file is selected and the   *)
(* split button is enabled.                                                *)
C29_Witness ==
  /\ uploadState.error = [message |-> "File too large"]
  /\ selectedFile # Null
  /\ selectedFile.type \in videoTypes
  /\ ~uploadState.uploading
  /\ ~uploadState.ffmpegLoading
  /\ ffmpegLoad = "loaded"

(* v is the integer nearest to 60 * k / n, the upper one of two. *)
NearestToShare(v, k, n) ==
  /\ 2 * n * v - 120 * k > 0 - n
  /\ 2 * n * v - 120 * k <= n

(* C30: a split starts at progress 20; while it runs the progress never    *)
(* decreases and stays between 20 and 80; the step that reads part k back  *)
(* sets it to 20 plus the rounded k-th share of 60; the split ends with    *)
(* 100 on success and with 0 on failure, and only then.                    *)
C30_ProgressMonotone ==
  [][ /\ (~uploadState.uploading /\ uploadState'.uploading)
           => uploadState'.progress = 20
      /\ (uploadState.uploading /\ uploadState'.uploading)
           => /\ uploadState'.progress >= uploadState.progress
              /\ uploadState'.progress >= 20
              /\ uploadState'.progress <= 80
              /\ Len(parts') = Len(parts) + 1
                   => NearestToShare(uploadState'.progress - 20, Len(parts'), numParts)
              /\ Len(parts') = Len(parts)
                   => uploadState'.progress = uploadState.progress
      /\ (uploadState.uploading /\ ~uploadState'.uploading)
           => \/ /\ uploadState'.result # Null
                 /\ uploadState'.progress = 100
                 /\ uploadState.progress = 80
              \/ /\ uploadState'.result = Null
                 /\ uploadState'.error # Null
                 /\ uploadState'.progress = 0 ]_vars

(* The second of three parts has been read back: progress 60. *)
C30_Witness ==
  /\ uploadState.uploading
  /\ numParts = 3
  /\ Len(parts) = 2
  /\ uploadState.progress = 60

----------------------------------------------------------------------------
(* Properties of the component, checked under SpecClientFair *)

(* C26: every started split ends: from a state with uploading true a state *)
(* with uploading false and with splitVideos or error set is reached.      *)
C26_SplitEnds ==
  uploadState.uploading
    ~> ( /\ ~uploadState.uploading
         /\ (uploadState.splitVideos # Null \/ uploadState.error # Null) )
====
